---- MODULE Spec2Model ----
(***************************************************************************)
(* Gestore Appuntamenti (src/app.py): the appointment entity, the overlap  *)
(* search, the sort-and-render step and the JSON load/save, as a state     *)
(* machine driven by the Tk callbacks.                                      *)
(*                                                                         *)
(* A handler is one step, except where it calls a messagebox function       *)
(* (showerror, showinfo, askyesno): the dialog waits in Tk's event loop,    *)
(* where the two buttons of the window are held back by the dialog's grab   *)
(* but a WM_DELETE_WINDOW of the window is served.  Such a handler is two   *)
(* steps, up to the dialog and from the dialog's end to the return, and the *)
(* window may be closed in between.  During the warning of _load no handler *)
(* is registered and nothing is stored yet: construction is one step with   *)
(* two ends, the warning dismissed or the window closed under it.           *)
(*                                                                         *)
(* Representation.                                                         *)
(*  - A str that is not an ISO date-time is a sequence of one-character     *)
(*    strings; str.strip() and int(str) work on those characters.           *)
(*  - A datetime is the number of seconds since 00:00:00 of day 0 of the    *)
(*    model calendar (naive, microsecond 0, as datetime(y, m, d, hh, mm)    *)
(*    builds it).  The text isoformat() writes is the tuple of its          *)
(*    fields <<day, hh, mm, ss>>; fromisoformat() accepts such a tuple      *)
(*    only when every field is in range.                                    *)
(*  - A JSON value is a record [t, s, n, dt]: t is its type ("text" and     *)
(*    "iso" are both JSON strings, "missing" is an absent key), s the       *)
(*    characters of a text, n the number (a float holds tenths), dt the     *)
(*    fields of an ISO text.                                                *)
(*  - Not modelled: date-times with a UTC offset or microseconds in the     *)
(*    file, JSON documents whose top level is not an array of objects; the  *)
(*    program itself writes none of them.  The alphabet of the model has    *)
(*    the ASCII digits, the blank, the signs, the underscore, the dot and   *)
(*    letters: the other digits and blanks of Unicode, which int() and      *)
(*    strip() also take, are not in it.                                     *)
(***************************************************************************)
EXTENDS Integers, Sequences, FiniteSets, TLC

VARIABLES
    pc,            \* "new" before __init__, "running" in mainloop, "closed" after destroy,
                   \* "asking_add" / "asking_del" while a handler waits in askyesno,
                   \* "showing_error" / "showing_info" while one waits in showerror / showinfo
    appuntamenti,  \* self.appuntamenti: sequence of [titolo, data_ora, durata]
    lst,           \* self.lst: the labels shown in the Listbox, in order
    status,        \* self.status: text of the status bar
    cand,          \* the Appuntamento _parse_form gave the handler that ran last: <<>> or <<ap>>
    sel,           \* the idx _delete_selected read in the handler that ran last: <<>> or <<idx>>
    msgbox,        \* the messagebox calls of the handler that ran last
    raised,        \* the exception that escaped the handler that ran last, or "none"
    file,          \* appointments.json: [kind, data]
    nfail          \* number of failed writes so far (model bound only)

vars == <<pc, appuntamenti, lst, status, cand, sel, msgbox, raised, file, nfail>>

----------------------------------------------------------------------------
(* Bounds of the model *)

\* An add is offered while the collection has fewer entries than this; a
\* file found at startup may hold more.
MaxLen == 2

\* Number of save() calls that may fail in one run.
MaxSaveFail == 1

----------------------------------------------------------------------------
(* Strings and numbers *)

Digits == {"0", "1", "2", "3", "4", "5", "6", "7", "8", "9"}

DigitVal(c) ==
    CASE c = "0" -> 0 [] c = "1" -> 1 [] c = "2" -> 2 [] c = "3" -> 3
      [] c = "4" -> 4 [] c = "5" -> 5 [] c = "6" -> 6 [] c = "7" -> 7
      [] c = "8" -> 8 [] c = "9" -> 9

\* Characters str.strip() removes (the model's alphabet has only the blank).
Whitespace == {" "}

RECURSIVE LStrip(_)
LStrip(s) ==
    IF s # <<>> /\ Head(s) \in Whitespace THEN LStrip(Tail(s)) ELSE s

RECURSIVE RStrip(_)
RStrip(s) ==
    IF s # <<>> /\ s[Len(s)] \in Whitespace
    THEN RStrip(SubSeq(s, 1, Len(s) - 1))
    ELSE s

\* str.strip()
Strip(s) == RStrip(LStrip(s))

RECURSIVE DigitsVal(_)
DigitsVal(s) ==
    IF s = <<>> THEN 0
    ELSE 10 * DigitsVal(SubSeq(s, 1, Len(s) - 1)) + DigitVal(s[Len(s)])

\* The digits of an int() literal: the characters without the underscores.
RECURSIVE DropUnderscores(_)
DropUnderscores(s) ==
    IF s = <<>> THEN <<>>
    ELSE IF Head(s) = "_" THEN DropUnderscores(Tail(s))
    ELSE <<Head(s)>> \o DropUnderscores(Tail(s))

\* int(str) succeeds: blanks around, an optional sign, one or more digits,
\* with single underscores allowed between two digits.
IntStrOK(s) ==
    LET t == Strip(s)
        u == IF t # <<>> /\ Head(t) \in {"-", "+"} THEN Tail(t) ELSE t
    IN  /\ u # <<>>
        /\ \A i \in 1..Len(u) : u[i] \in Digits \cup {"_"}
        /\ u[1] \in Digits
        /\ u[Len(u)] \in Digits
        /\ \A i \in 1..(Len(u) - 1) : ~(u[i] = "_" /\ u[i + 1] = "_")

\* int(str) for a string IntStrOK accepts.
IntOfStr(s) ==
    LET t == Strip(s)
    IN  IF Head(t) = "-" THEN 0 - DigitsVal(DropUnderscores(Tail(t)))
        ELSE IF Head(t) = "+" THEN DigitsVal(DropUnderscores(Tail(t)))
        ELSE DigitsVal(DropUnderscores(t))

\* int(float): truncation toward zero; the float is held in tenths.
IntOfTenths(n) == IF n >= 0 THEN n \div 10 ELSE 0 - ((0 - n) \div 10)

----------------------------------------------------------------------------
(* datetime *)

\* datetime(d.year, d.month, d.day, hh, mm) for the date `day` days after day 0.
MkDateTime(day, hh, mm) == day * 86400 + hh * 3600 + mm * 60

\* timedelta(minutes = m)
Minutes(m) == m * 60

\* Variant of IsoFormat that writes the time of day without the date.
IsoFormat_NoDate(dt) ==
    << 0, (dt % 86400) \div 3600, (dt % 3600) \div 60, dt % 60 >>

\* datetime.isoformat(): the fields of "YYYY-MM-DDTHH:MM:SS".
IsoFormat(dt) ==
    << dt \div 86400, (dt % 86400) \div 3600, (dt % 3600) \div 60, dt % 60 >>

\* datetime.fromisoformat() parses the fields.
IsoOK(f) ==
    /\ f[1] >= 0
    /\ f[2] \in 0..23
    /\ f[3] \in 0..59
    /\ f[4] \in 0..59

\* datetime.fromisoformat() for fields IsoOK accepts.
FromIso(f) == f[1] * 86400 + f[2] * 3600 + f[3] * 60 + f[4]

\* strftime("%d/%m %H:%M")
FmtDayTime(dt) == << dt \div 86400, (dt % 86400) \div 3600, (dt % 3600) \div 60 >>

\* strftime("%H:%M")
FmtTime(dt) == << (dt % 86400) \div 3600, (dt % 3600) \div 60 >>

----------------------------------------------------------------------------
(* JSON values *)

JText(s)   == [t |-> "text",    s |-> s,    n |-> 0, dt |-> <<0, 0, 0, 0>>]
JIso(f)    == [t |-> "iso",     s |-> <<>>, n |-> 0, dt |-> f]
JInt(n)    == [t |-> "int",     s |-> <<>>, n |-> n, dt |-> <<0, 0, 0, 0>>]
JFloat(n)  == [t |-> "float",   s |-> <<>>, n |-> n, dt |-> <<0, 0, 0, 0>>]
JNull      == [t |-> "null",    s |-> <<>>, n |-> 0, dt |-> <<0, 0, 0, 0>>]
JMissing   == [t |-> "missing", s |-> <<>>, n |-> 0, dt |-> <<0, 0, 0, 0>>]

----------------------------------------------------------------------------
(* Appuntamento *)

\* Appuntamento.__init__
Appuntamento(titolo, data_ora, durata_min) ==
    [titolo |-> Strip(titolo), data_ora |-> data_ora, durata |-> durata_min]

\* Appuntamento.fine
fine(ap) == ap.data_ora + Minutes(ap.durata)

\* Appuntamento.to_dict
to_dict(ap) ==
    [titolo   |-> JText(ap.titolo),
     data_ora |-> JIso(IsoFormat(ap.data_ora)),
     durata   |-> JInt(ap.durata)]

\* d["titolo"] is there and has .strip(): any JSON string.
TitoloOK(v) == v.t \in {"text", "iso"}

\* datetime.fromisoformat(d["data_ora"]) succeeds.
DataOraOK(v) == v.t = "iso" /\ IsoOK(v.dt)

\* int(d["durata"]) succeeds: a number, or a string int() parses.
DurataOK(v) ==
    \/ v.t \in {"int", "float"}
    \/ v.t = "text" /\ IntStrOK(v.s)

\* from_dict(d) returns instead of raising.
from_dict_ok(d) == TitoloOK(d.titolo) /\ DataOraOK(d.data_ora) /\ DurataOK(d.durata)

\* The characters of a JSON string, for .strip(); an ISO text has no blanks
\* and is never empty, so one character stands for it.
CharsOf(v) == IF v.t = "text" THEN v.s ELSE <<"T">>

\* int(d["durata"])
IntOf(v) ==
    CASE v.t = "int"   -> v.n
      [] v.t = "float" -> IntOfTenths(v.n)
      [] v.t = "text"  -> IntOfStr(v.s)

\* Appuntamento.from_dict, for a record from_dict_ok accepts.
from_dict(d) ==
    Appuntamento(CharsOf(d.titolo), FromIso(d.data_ora.dt), IntOf(d.durata))

\* Appuntamento.__str__
Label(ap) ==
    [titolo |-> ap.titolo,
     start  |-> FmtDayTime(ap.data_ora),
     end    |-> FmtTime(fine(ap)),
     durata |-> ap.durata]

----------------------------------------------------------------------------
(* Inputs the model offers *)

\* GestoreAppuntamenti._time_slots(step_minutes = 30)
TimeSlots == { <<h, m>> : h \in 0..23, m \in {0, 30} }

\* Texts typed into ent_title.
FormTitles == { <<>>, <<" ">>, <<" ", "a", " ">> }

\* Dates picked in cal_date, as days after day 0.
FormDays == {0, 1}

\* Values of cmb_time: nothing chosen (<<>>) or one of the slots.
FormTimes == { <<>> } \cup { t \in TimeSlots : t \in { <<0, 0>>, <<23, 30>> } }

\* Texts typed into ent_duration.
FormDurations == { <<>>, <<"3", "0">>, <<"3", "_", "0">>, <<" ", "6", "0">>, <<"0">>,
                   <<"-", "5">>, <<"1", ".", "5">>, <<"3", "_">> }

\* Ways the write of _save can end: written, open() raises (the file is left
\* as it was), or the dump raises after open() truncated the file.
SaveOutcomes == {"ok", "open_fails", "write_fails"}

\* One stored record.
Rec(titolo, data_ora, durata) ==
    [titolo |-> titolo, data_ora |-> data_ora, durata |-> durata]

FileAbsent  == [kind |-> "absent",  data |-> <<>>]
FileGarbage == [kind |-> "garbage", data |-> <<>>]
FileJson(d) == [kind |-> "json",    data |-> d]

RecA == Rec(JText(<<"a">>), JIso(<<0, 23, 30, 0>>), JInt(60))
RecB == Rec(JText(<<"b">>), JIso(<<0, 0, 0, 0>>), JInt(30))
RecC == Rec(JText(<<"c">>), JIso(<<1, 0, 0, 0>>), JInt(30))

\* Contents of appointments.json found at startup.
InitFiles ==
    { FileAbsent,
      FileGarbage,
      FileJson(<<>>),
      FileJson(<<RecB>>),
      \* written in an order that is not the start order
      FileJson(<<RecA, RecB>>),
      \* three entries, the latest written first
      FileJson(<<RecC, RecA, RecB>>),
      \* a good record followed by one without "durata"
      FileJson(<<RecB, Rec(JText(<<"a">>), JIso(<<0, 23, 30, 0>>), JMissing)>>),
      \* "data_ora" that is no date-time: hour 24, a plain text, null
      FileJson(<<Rec(JText(<<"a">>), JIso(<<0, 24, 0, 0>>), JInt(30))>>),
      FileJson(<<Rec(JText(<<"a">>), JText(<<"x">>), JInt(30))>>),
      FileJson(<<Rec(JText(<<"a">>), JNull, JInt(30))>>),
      \* "titolo" that is a number
      FileJson(<<Rec(JInt(7), JIso(<<0, 0, 0, 0>>), JInt(30))>>),
      \* "durata" as a string, a float, null, a text that is no number
      FileJson(<<Rec(JText(<<"a">>), JIso(<<0, 0, 0, 0>>), JText(<<"3", "0">>))>>),
      FileJson(<<Rec(JText(<<"a">>), JIso(<<0, 0, 0, 0>>), JText(<<"1", "_", "0">>))>>),
      FileJson(<<Rec(JText(<<"a">>), JIso(<<0, 0, 0, 0>>), JFloat(305))>>),
      FileJson(<<Rec(JText(<<"a">>), JIso(<<0, 0, 0, 0>>), JNull)>>),
      FileJson(<<Rec(JText(<<"a">>), JIso(<<0, 0, 0, 0>>), JText(<<"x">>))>>),
      \* well-typed records that break the entity's rules
      FileJson(<<Rec(JText(<<"a">>), JIso(<<0, 0, 0, 0>>), JInt(0))>>),
      FileJson(<<Rec(JText(<<"a">>), JIso(<<1, 0, 0, 0>>), JInt(-5))>>),
      FileJson(<<Rec(JText(<<" ">>), JIso(<<0, 0, 0, 0>>), JInt(30))>>) }

----------------------------------------------------------------------------
(* GestoreAppuntamenti: helpers *)

\* Variant of SortByStart that leaves the list as it is.
SortByStart_Skipped(s) == s

\* list.sort(key = lambda a: a.data_ora) places one more element: after every
\* element whose key is not greater (the sort is stable).
RECURSIVE InsertByStart(_, _)
InsertByStart(s, ap) ==
    IF s = <<>> THEN <<ap>>
    ELSE IF s[Len(s)].data_ora <= ap.data_ora THEN Append(s, ap)
    ELSE Append(InsertByStart(SubSeq(s, 1, Len(s) - 1), ap), s[Len(s)])

\* self.appuntamenti.sort(key = lambda a: a.data_ora)
RECURSIVE SortByStart(_)
SortByStart(s) ==
    IF s = <<>> THEN <<>>
    ELSE InsertByStart(SortByStart(SubSeq(s, 1, Len(s) - 1)), s[Len(s)])

\* The Listbox after _refresh_list: one label per appointment, in order.
Render(s) == [i \in 1..Len(s) |-> Label(s[i])]

\* Variant of Overlaps that compares with <= and >= (closed intervals).
Overlaps_Closed(new_ap, ap) ==
    (new_ap.data_ora <= fine(ap)) /\ (fine(new_ap) >= ap.data_ora)

\* The test of _find_overlap for one stored appointment.
Overlaps(new_ap, ap) ==
    (new_ap.data_ora < fine(ap)) /\ (fine(new_ap) > ap.data_ora)

\* Variant of FindOverlapIn that keeps looping and returns the last match.
RECURSIVE FindOverlapIn_Last(_, _)
FindOverlapIn_Last(s, new_ap) ==
    IF s = <<>> THEN <<>>
    ELSE IF Overlaps(new_ap, s[Len(s)]) THEN <<s[Len(s)]>>
    ELSE FindOverlapIn_Last(SubSeq(s, 1, Len(s) - 1), new_ap)

\* _find_overlap: <<>> for None, else <<ap>> for the first ap the loop returns.
RECURSIVE FindOverlapIn(_, _)
FindOverlapIn(s, new_ap) ==
    IF s = <<>> THEN <<>>
    ELSE IF Overlaps(new_ap, Head(s)) THEN <<Head(s)>>
    ELSE FindOverlapIn(Tail(s), new_ap)

_find_overlap(new_ap) == FindOverlapIn(appuntamenti, new_ap)

\* One messagebox call: the function, the window title, the message, and the
\* appointment title and formatted start the message names (when it names one).
Box(fn, title, text, titolo, when) ==
    [fn |-> fn, title |-> title, text |-> text, titolo |-> titolo, when |-> when]

NoWhen == <<0, 0, 0>>

\* _parse_form: the message box of the check that rejects the form, or <<>>.
ParseFormError(title_in, time_in, duration_in) ==
    LET title        == Strip(title_in)
        duration_str == Strip(duration_in)
    IN  IF title = <<>> \/ time_in = <<>> \/ duration_str = <<>>
        THEN <<Box("showerror", "Errore", "Compila tutti i campi!", <<>>, NoWhen)>>
        ELSE IF ~IntStrOK(duration_str) \/ IntOfStr(duration_str) <= 0
        THEN <<Box("showerror", "Errore", "La durata deve essere un intero positivo.",
                   <<>>, NoWhen)>>
        ELSE IF ~(time_in[1] \in 0..23 /\ time_in[2] \in 0..59)
        THEN <<Box("showerror", "Errore", "Formato data/ora non valido.", <<>>, NoWhen)>>
        ELSE <<>>

\* _parse_form: the Appuntamento it returns when no check rejects the form.
ParseFormAp(title_in, day, time_in, duration_in) ==
    Appuntamento(Strip(title_in),
                 MkDateTime(day, time_in[1], time_in[2]),
                 IntOfStr(Strip(duration_in)))

\* The appointments _parse_form returns for the forms the model offers.
FormAps ==
    { ParseFormAp(f[1], f[2], f[3], f[4]) :
        f \in { g \in FormTitles \X FormDays \X FormTimes \X FormDurations :
                   ParseFormError(g[1], g[3], g[4]) = <<>> } }

\* The data _save dumps.
Serialize(s) == [i \in 1..Len(s) |-> to_dict(s[i])]

\* Variant of FileAfterSave in which the handler never reaches the write.
FileAfterSave_NoWrite(s, outcome) ==
    IF outcome = "write_fails" THEN FileGarbage ELSE file

\* appointments.json after _save ran on collection s and ended as `outcome`.
FileAfterSave(s, outcome) ==
    CASE outcome = "ok"          -> FileJson(Serialize(s))
      [] outcome = "open_fails"  -> file
      [] outcome = "write_fails" -> FileGarbage

\* The status bar after _save: untouched, or the except branch's text.
StatusAfterSave(old, outcome) ==
    IF outcome = "ok" THEN old ELSE "Errore salvataggio"

\* A write may fail only while the model's budget of failures lasts.
SaveAllowed(outcome) == outcome = "ok" \/ nfail < MaxSaveFail

\* _load leaves the collection alone: no file, or an exception in the try.
LoadFails(f) ==
    \/ f.kind = "garbage"
    \/ f.kind = "json" /\ \E i \in 1..Len(f.data) : ~from_dict_ok(f.data[i])

\* self.appuntamenti after _load.
Loaded(old, f) ==
    IF f.kind = "absent" \/ LoadFails(f) THEN old
    ELSE [i \in 1..Len(f.data) |-> from_dict(f.data[i])]

----------------------------------------------------------------------------
(* GestoreAppuntamenti: construction and the callbacks *)

Init ==
    /\ pc = "new"
    /\ appuntamenti = <<>>
    /\ lst = <<>>
    /\ status = ""
    /\ cand = <<>>
    /\ sel = <<>>
    /\ msgbox = <<>>
    /\ raised = "none"
    /\ file \in InitFiles
    /\ nfail = 0

\* The warning of _load, when _load shows one.
LoadWarning(f) ==
    IF f.kind # "absent" /\ LoadFails(f)
    THEN <<Box("showwarning", "Avviso", "Impossibile caricare i dati", <<>>, NoWhen)>>
    ELSE <<>>

\* GestoreAppuntamenti.__init__: _build_ui, _load, _refresh_list, protocol.
ConstructDone ==
    /\ LET loaded == Loaded(<<>>, file)
           sorted == SortByStart(loaded)
       IN  /\ appuntamenti' = sorted
           /\ lst' = Render(sorted)
    /\ msgbox' = LoadWarning(file)
    /\ status' = "Pronto."
    /\ cand' = <<>>
    /\ sel' = <<>>
    /\ raised' = "none"
    /\ pc' = "running"
    /\ UNCHANGED <<file, nfail>>

\* GestoreAppuntamenti.__init__, the window closed while the warning of _load
\* is shown: _on_close is not registered yet (line 79), the window is
\* destroyed, and _refresh_list raises TclError on the dead Listbox.
ConstructClosedInWarning ==
    /\ LoadWarning(file) # <<>>
    /\ appuntamenti' = Loaded(<<>>, file)
    /\ lst' = <<>>
    /\ msgbox' = LoadWarning(file)
    /\ status' = "Pronto."
    /\ cand' = <<>>
    /\ sel' = <<>>
    /\ raised' = "TclError"
    /\ pc' = "closed"
    /\ UNCHANGED <<file, nfail>>

Construct == ConstructDone \/ ConstructClosedInWarning

\* The program is started: app = GestoreAppuntamenti(); app.mainloop().
Startup == pc = "new" /\ Construct

\* The program is started again after the window was closed.
Relaunch == pc = "closed" /\ Construct

\* _add_appointment, the form rejected: up to the showerror of _parse_form
\* (line 144, 152 or 161).
AddRejected(box) ==
    /\ box # <<>>
    /\ msgbox' = box
    /\ cand' = <<>>
    /\ sel' = <<>>
    /\ raised' = "none"
    /\ pc' = "showing_error"
    /\ UNCHANGED <<appuntamenti, lst, status, file, nfail>>

\* _add_appointment, the error box dismissed: _parse_form returns None and the
\* handler returns (line 176).
AddRejectedReturn ==
    /\ pc' = "running"
    /\ UNCHANGED <<appuntamenti, lst, status, cand, sel, msgbox, raised, file, nfail>>

\* The question _add_appointment asks about ap: <<>> when nothing overlaps.
OverlapQuestion(ap) ==
    LET conflict == _find_overlap(ap)
    IN  IF conflict = <<>> THEN <<>>
        ELSE <<Box("askyesno", "Sovrapposizione", "Questo appuntamento si sovrappone a",
                   conflict[1].titolo, FmtDayTime(conflict[1].data_ora))>>

\* Lines 188-192 of _add_appointment: append, _refresh_list, _clear_form,
\* _save, status.
AddTail(ap, outcome) ==
    /\ Len(appuntamenti) < MaxLen
    /\ SaveAllowed(outcome)
    /\ LET sorted == SortByStart(Append(appuntamenti, ap))
       IN  /\ appuntamenti' = sorted
           /\ lst' = Render(sorted)
           /\ file' = FileAfterSave(sorted, outcome)
    /\ nfail' = IF outcome = "ok" THEN nfail ELSE nfail + 1
    /\ status' = "Appuntamento aggiunto."
    /\ pc' = "running"

\* _add_appointment, the form accepted and no overlap found: the whole handler.
AddStored(ap, outcome) ==
    /\ _find_overlap(ap) = <<>>
    /\ msgbox' = <<>>
    /\ cand' = <<ap>>
    /\ sel' = <<>>
    /\ raised' = "none"
    /\ AddTail(ap, outcome)

\* _add_appointment, the form accepted and an overlap found: up to the
\* question of line 184.
AddAsk(ap) ==
    /\ _find_overlap(ap) # <<>>
    /\ msgbox' = OverlapQuestion(ap)
    /\ cand' = <<ap>>
    /\ sel' = <<>>
    /\ raised' = "none"
    /\ pc' = "asking_add"
    /\ UNCHANGED <<appuntamenti, lst, status, file, nfail>>

\* GestoreAppuntamenti._add_appointment, from the click to its return or to
\* the dialog it shows (the error box or the overlap question).
_add_appointment ==
    /\ pc = "running"
    /\ \/ \E box \in { ParseFormError(ti, tm, du) :
                           ti \in FormTitles, tm \in FormTimes, du \in FormDurations } :
             AddRejected(box)
       \/ \E ap \in FormAps :
             \/ AddAsk(ap)
             \/ \E outcome \in SaveOutcomes : AddStored(ap, outcome)

\* Variant of AddDeclined in which the append came before the question.
AddDeclined_Appended ==
    /\ Len(appuntamenti) < MaxLen
    /\ status' = "Aggiunta annullata (sovrapposizione)."
    /\ appuntamenti' = Append(appuntamenti, cand[1])
    /\ pc' = "running"
    /\ UNCHANGED <<lst, cand, sel, msgbox, raised, file, nfail>>

\* _add_appointment, the overlap question answered no: lines 185-186.
AddDeclined ==
    /\ status' = "Aggiunta annullata (sovrapposizione)."
    /\ pc' = "running"
    /\ UNCHANGED <<appuntamenti, lst, cand, sel, msgbox, raised, file, nfail>>

\* _add_appointment, the overlap question answered yes: lines 188-192.
AddForced(outcome) ==
    /\ AddTail(cand[1], outcome)
    /\ UNCHANGED <<cand, sel, msgbox, raised>>

\* GestoreAppuntamenti._add_appointment, from the end of its dialog to its
\* return.
_add_appointment_answered ==
    \/ pc = "showing_error" /\ AddRejectedReturn
    \/ pc = "asking_add" /\ AddDeclined
    \/ pc = "asking_add" /\ \E outcome \in SaveOutcomes : AddForced(outcome)

\* Variant of DelAt that counts idx from 1.
DelAt_OffByOne(s, idx) ==
    [i \in 1..(Len(s) - 1) |-> IF i < idx THEN s[i] ELSE s[i + 1]]

\* The list after `del self.appuntamenti[idx]` (idx counts from 0).
DelAt(s, idx) ==
    [i \in 1..(Len(s) - 1) |-> IF i <= idx THEN s[i] ELSE s[i + 1]]

\* Lines 200 and 202 on list s with index idx (a row number, never negative):
\* s[idx] raises IndexError past the end and s is left alone, else del s[idx].
RemoveAt(s, idx) ==
    IF idx >= Len(s)
    THEN [raised |-> "IndexError", list |-> s]
    ELSE [raised |-> "none",       list |-> DelAt(s, idx)]

\* _delete_selected, nothing selected: up to the showinfo of line 197.
DeleteNoSelection ==
    /\ msgbox' = <<Box("showinfo", "Info", "Seleziona un appuntamento da cancellare.",
                       <<>>, NoWhen)>>
    /\ cand' = <<>>
    /\ sel' = <<>>
    /\ raised' = "none"
    /\ pc' = "showing_info"
    /\ UNCHANGED <<appuntamenti, lst, status, file, nfail>>

\* _delete_selected, the info box dismissed: the handler returns (line 198).
DeleteNoSelectionReturn ==
    /\ pc' = "running"
    /\ UNCHANGED <<appuntamenti, lst, status, cand, sel, msgbox, raised, file, nfail>>

\* _delete_selected, idx not an index of the list: line 200 raises IndexError.
\* The Listbox shows one row per entry in every state the handler starts in,
\* so no click takes this branch.
DeleteBadIndex(idx) ==
    /\ RemoveAt(appuntamenti, idx).raised = "IndexError"
    /\ raised' = "IndexError"
    /\ msgbox' = <<>>
    /\ cand' = <<>>
    /\ sel' = <<idx>>
    /\ UNCHANGED <<pc, appuntamenti, lst, status, file, nfail>>

\* _delete_selected, idx an index of the list: up to the question of line 201.
DeleteAsk(idx) ==
    /\ RemoveAt(appuntamenti, idx).raised = "none"
    /\ msgbox' = <<Box("askyesno", "Conferma", "Cancellare",
                       appuntamenti[idx + 1].titolo, NoWhen)>>
    /\ cand' = <<>>
    /\ sel' = <<idx>>
    /\ raised' = "none"
    /\ pc' = "asking_del"
    /\ UNCHANGED <<appuntamenti, lst, status, file, nfail>>

\* GestoreAppuntamenti._delete_selected with curselection() empty or (idx,),
\* idx a row of the Listbox, from the click to its return or to the dialog it
\* shows (the info box or the confirmation).  The handler does not compare
\* idx with the collection: line 200 raises where the Listbox has a row the
\* collection has no entry for.
_delete_selected ==
    /\ pc = "running"
    /\ \/ DeleteNoSelection
       \/ \E idx \in 0..(Len(lst) - 1) :
             IF idx >= Len(appuntamenti) THEN DeleteBadIndex(idx) ELSE DeleteAsk(idx)

\* _delete_selected, the question answered no: the handler returns.
DeleteDeclined ==
    /\ pc' = "running"
    /\ UNCHANGED <<appuntamenti, lst, status, cand, sel, msgbox, raised, file, nfail>>

\* _delete_selected, the question answered yes: lines 202-205.
DeleteConfirmed(outcome) ==
    /\ SaveAllowed(outcome)
    /\ LET sorted == SortByStart(RemoveAt(appuntamenti, sel[1]).list)
       IN  /\ appuntamenti' = sorted
           /\ lst' = Render(sorted)
           /\ file' = FileAfterSave(sorted, outcome)
    /\ nfail' = IF outcome = "ok" THEN nfail ELSE nfail + 1
    /\ status' = "Appuntamento cancellato."
    /\ pc' = "running"
    /\ UNCHANGED <<cand, sel, msgbox, raised>>

\* GestoreAppuntamenti._delete_selected, from the end of its dialog to its
\* return.
_delete_selected_answered ==
    \/ pc = "showing_info" /\ DeleteNoSelectionReturn
    \/ pc = "asking_del" /\ DeleteDeclined
    \/ pc = "asking_del" /\ \E outcome \in SaveOutcomes : DeleteConfirmed(outcome)

\* What escapes the handler that was waiting in a dialog when the window was
\* destroyed.  The dialog goes with the window: the messagebox call raises
\* TclError (the dialog's grab is released on a destroyed application), or it
\* returns, an askyesno with the answer no.  After a return _add_appointment
\* configures the dead status label (line 185), which raises TclError too;
\* the other handlers just return.
UnwoundAfterClose ==
    CASE pc = "asking_add"    -> {"TclError"}
      [] pc = "asking_del"    -> {"none", "TclError"}
      [] pc = "showing_error" -> {"none", "TclError"}
      [] pc = "showing_info"  -> {"none", "TclError"}
      [] OTHER                -> {"none"}

\* GestoreAppuntamenti._on_close: _save, then destroy; a handler waiting in a
\* dialog unwinds without touching the collection.
_on_close ==
    /\ pc \in {"running", "asking_add", "asking_del", "showing_error", "showing_info"}
    /\ \E outcome \in SaveOutcomes :
          /\ SaveAllowed(outcome)
          /\ file' = FileAfterSave(appuntamenti, outcome)
          /\ status' = StatusAfterSave(status, outcome)
          /\ nfail' = IF outcome = "ok" THEN nfail ELSE nfail + 1
    /\ raised' \in UnwoundAfterClose
    /\ msgbox' = <<>>
    /\ cand' = <<>>
    /\ sel' = <<>>
    /\ pc' = "closed"
    /\ UNCHANGED <<appuntamenti, lst>>

Next ==
    \/ Startup
    \/ _add_appointment
    \/ _add_appointment_answered
    \/ _delete_selected
    \/ _delete_selected_answered
    \/ _on_close
    \/ Relaunch

Spec == Init /\ [][Next]_vars

----------------------------------------------------------------------------
(* Vocabulary of the properties *)

StartOf(a) == a.data_ora
EndOf(a)   == a.data_ora + 60 * a.durata

\* a.start < b.end and a.end > b.start
Intersect(a, b) == StartOf(a) < EndOf(b) /\ EndOf(a) > StartOf(b)

\* The half-open intervals [start, end) of a and b share an instant (if they
\* share one they share the later of the two starts).
HalfOpenMeet(a, b) ==
    \E t \in {StartOf(a), StartOf(b)} :
        /\ StartOf(a) <= t /\ t < EndOf(a)
        /\ StartOf(b) <= t /\ t < EndOf(b)

\* One interval ends at the instant the other starts.
BackToBack(a, b) == EndOf(a) = StartOf(b) \/ EndOf(b) = StartOf(a)

SortedByStart(s) ==
    \A i, j \in 1..Len(s) : i < j => StartOf(s[i]) <= StartOf(s[j])

\* s without its k-th element.
Without(s, k) == [i \in 1..(Len(s) - 1) |-> IF i < k THEN s[i] ELSE s[i + 1]]

\* The step is the start of _add_appointment and _parse_form accepted the form.
AddRan == pc = "running" /\ cand' # <<>>

\* The window is up: in the event loop, or in a handler waiting in a dialog.
WindowUp == pc \in {"running", "asking_add", "asking_del", "showing_error", "showing_info"}

\* The overlap question is on screen.
Asked(boxes) == Len(boxes) = 1 /\ boxes[1].title = "Sovrapposizione"

\* Some stored appointment intersects c.
Conflicts(c) == \E i \in 1..Len(appuntamenti) : Intersect(c, appuntamenti[i])

\* The position of the first stored appointment that intersects c.
FirstConflict(c) ==
    CHOOSE k \in 1..Len(appuntamenti) :
        /\ Intersect(c, appuntamenti[k])
        /\ \A j \in 1..(k - 1) : ~Intersect(c, appuntamenti[j])

\* The stored record r holds the three fields of appointment a.
SameFields(r, a) ==
    /\ r.titolo.t = "text" /\ r.titolo.s = a.titolo
    /\ r.data_ora.t = "iso" /\ IsoOK(r.data_ora.dt) /\ FromIso(r.data_ora.dt) = a.data_ora
    /\ r.durata.t = "int" /\ r.durata.n = a.durata

\* The file holds exactly the collection s, record by record, in order.
FileHolds(f, s) ==
    /\ f.kind = "json"
    /\ Len(f.data) = Len(s)
    /\ \A i \in 1..Len(s) : SameFields(f.data[i], s[i])

----------------------------------------------------------------------------
(* C1 *)

\* C1: whenever control is with the event loop (after startup, after any add,
\* forced add or delete, also while a question is open or after the window is
\* closed) the collection is sorted ascending by start.
C1_SortedByStart ==
    pc # "new" => SortedByStart(appuntamenti)

\* A file written as <<a 23:30, b 00:00>> was loaded and is held as <<b, a>>.
C1_Witness ==
    /\ pc = "running"
    /\ file = FileJson(<<RecA, RecB>>)
    /\ Len(appuntamenti) = 2
    /\ appuntamenti[1].titolo = <<"b">>
    /\ StartOf(appuntamenti[1]) < StartOf(appuntamenti[2])

----------------------------------------------------------------------------
(* C2 *)

\* C2: add flags the candidate exactly when some stored appointment e has
\* candidate.start < e.end and candidate.end > e.start; when every stored
\* appointment has a positive duration that is exactly when the half-open
\* intervals share an instant; an appointment back-to-back with the candidate
\* (either order) does not by itself cause a flag.
C2_OverlapRule ==
    [][ AddRan =>
          LET c == cand'[1]
          IN  /\ Asked(msgbox') <=> Conflicts(c)
              /\ pc' = "asking_add" <=> Conflicts(c)
              /\ (\A i \in 1..Len(appuntamenti) : appuntamenti[i].durata > 0)
                    => (Asked(msgbox') <=>
                          \E i \in 1..Len(appuntamenti) : HalfOpenMeet(c, appuntamenti[i]))
              /\ (\A i \in 1..Len(appuntamenti) : BackToBack(c, appuntamenti[i]))
                    => msgbox' = <<>> ]_vars

\* A candidate that starts when the stored appointment ends was added with no
\* question asked.
C2_Witness ==
    /\ pc = "running"
    /\ status = "Appuntamento aggiunto."
    /\ msgbox = <<>>
    /\ Len(appuntamenti) = 2
    /\ cand = <<appuntamenti[2]>>
    /\ EndOf(appuntamenti[1]) = StartOf(appuntamenti[2])
    /\ appuntamenti[1].durata > 0

----------------------------------------------------------------------------
(* C3 *)

\* C3: an add whose candidate overlaps a stored appointment asks the overlap
\* question and changes nothing while it waits; answered no, or left
\* unanswered because the window is closed, the collection and the list shown
\* are exactly as before (and the file too when the answer is no); answered
\* yes, the collection is the old one with the candidate inserted, one longer.
C3_ConflictThenForce ==
    [][ /\ (AddRan /\ Conflicts(cand'[1])) =>
              /\ Asked(msgbox')
              /\ pc' = "asking_add"
              /\ appuntamenti' = appuntamenti
              /\ lst' = lst
              /\ file' = file
        /\ pc = "asking_add" =>
              /\ Asked(msgbox) /\ cand # <<>> /\ Conflicts(cand[1])
              /\ pc' = "running" =>
                    status' \in {"Aggiunta annullata (sovrapposizione).",
                                 "Appuntamento aggiunto."}
              /\ (pc' = "running" /\ status' = "Aggiunta annullata (sovrapposizione).") =>
                    /\ appuntamenti' = appuntamenti
                    /\ lst' = lst
                    /\ file' = file
              /\ pc' = "closed" =>
                    /\ appuntamenti' = appuntamenti
                    /\ lst' = lst
              /\ (pc' = "running" /\ status' = "Appuntamento aggiunto.") =>
                    /\ Len(appuntamenti') = Len(appuntamenti) + 1
                    /\ \E k \in 1..Len(appuntamenti') :
                          /\ appuntamenti'[k] = cand[1]
                          /\ Without(appuntamenti', k) = appuntamenti ]_vars

\* An overlapping candidate was added after the question was answered yes.
C3_Witness ==
    /\ pc = "running"
    /\ status = "Appuntamento aggiunto."
    /\ Asked(msgbox)
    /\ Len(appuntamenti) = 2
    /\ cand # <<>>
    /\ Intersect(appuntamenti[1], appuntamenti[2])

----------------------------------------------------------------------------
(* C4 *)

\* C4: on the collection of every state, removing at an index at or past the
\* end raises IndexError and gives the collection back unchanged, and removing
\* at a valid index gives the collection without the entry at that position,
\* one shorter, the other entries in their order.  In the program the index a
\* delete reads is a row of the list shown and is always valid; while the
\* confirmation is open it still names the row shown; confirmed, the delete
\* removes the entry shown at that row, leaves the others in their order and
\* shortens the collection by one; not confirmed it changes nothing.
C4_Remove ==
    /\ [](\A idx \in 0..(Len(appuntamenti) + 1) :
             LET r == RemoveAt(appuntamenti, idx)
             IN  /\ idx >= Len(appuntamenti) =>
                       /\ r.raised = "IndexError"
                       /\ r.list = appuntamenti
                 /\ idx < Len(appuntamenti) =>
                       /\ r.raised = "none"
                       /\ Len(r.list) = Len(appuntamenti) - 1
                       /\ r.list = Without(appuntamenti, idx + 1))
    /\ [][ /\ (pc = "running" /\ sel' # <<>>) =>
                 /\ sel'[1] < Len(appuntamenti)
                 /\ pc' = "asking_del"
                 /\ raised' = "none"
                 /\ appuntamenti' = appuntamenti
                 /\ lst' = lst
                 /\ file' = file
           /\ pc = "asking_del" =>
                 /\ sel # <<>> /\ sel[1] < Len(appuntamenti)
                 /\ lst[sel[1] + 1] = Label(appuntamenti[sel[1] + 1])
                 /\ (\E outcome \in SaveOutcomes : DeleteConfirmed(outcome)) =>
                       /\ raised' = "none"
                       /\ Len(appuntamenti') = Len(appuntamenti) - 1
                       /\ appuntamenti' = Without(appuntamenti, sel[1] + 1)
                       /\ lst' = Without(lst, sel[1] + 1)
                 /\ ~(\E outcome \in SaveOutcomes : DeleteConfirmed(outcome)) =>
                       /\ appuntamenti' = appuntamenti
                       /\ lst' = lst ]_vars

\* Of the three appointments b, a, c loaded from the file, the middle one was
\* deleted after confirmation: b and c are left, in that order.
C4_Witness ==
    /\ pc = "running"
    /\ status = "Appuntamento cancellato."
    /\ sel = <<1>>
    /\ Len(appuntamenti) = 2
    /\ appuntamenti[1].titolo = <<"b">>
    /\ appuntamenti[2].titolo = <<"c">>
    /\ lst = Render(appuntamenti)

----------------------------------------------------------------------------
(* C5 *)

\* C5: when the save that follows an add, forced add or delete fails, the
\* collection keeps the mutation, the status bar shows the failure when the
\* handler returns, and the application goes on running.
C5_SaveFailureSurfaced ==
    [][ (WindowUp /\ pc' = "running" /\ nfail' > nfail) =>
          /\ Len(appuntamenti') # Len(appuntamenti)
          /\ lst' = Render(appuntamenti')
          /\ status' = "Errore salvataggio" ]_vars

----------------------------------------------------------------------------
(* C6 *)

\* C6: a handler that changes the collection, and the close handler, write the
\* file before returning: unless that write fails, the file holds the
\* collection, record by record in its sorted order; a handler that does not
\* change the collection does not touch the file.
C6_SaveAfterMutation ==
    [][ WindowUp =>
          /\ (appuntamenti' # appuntamenti \/ pc' = "closed") =>
                (nfail' = nfail =>
                    /\ FileHolds(file', appuntamenti')
                    /\ SortedByStart(appuntamenti'))
          /\ (appuntamenti' = appuntamenti /\ pc' # "closed") =>
                /\ file' = file
                /\ nfail' = nfail ]_vars

\* An add that went in before the stored appointment was written to the file.
C6_Witness ==
    /\ pc = "running"
    /\ status = "Appuntamento aggiunto."
    /\ nfail = 0
    /\ Len(appuntamenti) = 2
    /\ cand = <<appuntamenti[1]>>
    /\ StartOf(appuntamenti[1]) < StartOf(appuntamenti[2])
    /\ FileHolds(file, appuntamenti)

----------------------------------------------------------------------------
(* C7 *)

\* A record the file format does not allow: a field missing, "titolo" not a
\* string, "data_ora" not an ISO date-time string, "durata" not an integer.
IllFormedRecord(r) ==
    \/ r.titolo.t \notin {"text", "iso"}
    \/ ~(r.data_ora.t = "iso" /\ IsoOK(r.data_ora.dt))
    \/ r.durata.t # "int"

Malformed(f) ==
    \/ f.kind = "garbage"
    \/ f.kind = "json" /\ \E i \in 1..Len(f.data) : IllFormedRecord(f.data[i])

\* C7: at construction, with no file the load is silent and the collection is
\* empty; with a file that is unparseable or has a missing or ill-typed field
\* a warning is shown, the collection stays empty, and the window runs.
C7_LoadRejectsMalformed ==
    [][ (pc \in {"new", "closed"} /\ pc' = "running") =>
          /\ file.kind = "absent" => (msgbox' = <<>> /\ appuntamenti' = <<>>)
          /\ Malformed(file) =>
                /\ Len(msgbox') = 1 /\ msgbox'[1].fn = "showwarning"
                /\ appuntamenti' = <<>> ]_vars

----------------------------------------------------------------------------
(* C8 *)

\* C8: every appointment held or submitted survives to_dict then from_dict
\* with its three fields; and when the program is started again on a file
\* that holds the collection it had when it closed, the load is silent and
\* gives that collection back, entry by entry in the same order.
C8_RoundTrip ==
    /\ [](\A a \in {appuntamenti[i] : i \in 1..Len(appuntamenti)} \cup
                  {cand[i] : i \in 1..Len(cand)} :
             /\ from_dict_ok(to_dict(a))
             /\ from_dict(to_dict(a)).titolo = a.titolo
             /\ from_dict(to_dict(a)).data_ora = a.data_ora
             /\ from_dict(to_dict(a)).durata = a.durata)
    /\ [][ (pc = "closed" /\ pc' = "running" /\ file = FileJson(Serialize(appuntamenti))) =>
             /\ msgbox' = <<>>
             /\ Len(appuntamenti') = Len(appuntamenti)
             /\ \A i \in 1..Len(appuntamenti) :
                   /\ appuntamenti'[i].titolo = appuntamenti[i].titolo
                   /\ appuntamenti'[i].data_ora = appuntamenti[i].data_ora
                   /\ appuntamenti'[i].durata = appuntamenti[i].durata ]_vars

\* The program was started on a file a save had written and holds the two
\* appointments of that file, the second on the day after day 0.
C8_Witness ==
    /\ pc = "running"
    /\ status = "Pronto."
    /\ Len(appuntamenti) = 2
    /\ file \notin InitFiles
    /\ FileHolds(file, appuntamenti)
    /\ StartOf(appuntamenti[2]) >= 86400
    /\ \A i \in 1..2 : appuntamenti[i].durata > 0 /\ appuntamenti[i].titolo # <<>>

----------------------------------------------------------------------------
(* C9 *)

\* C9: every appointment in the collection has a positive duration and a
\* title that is not empty once stripped.
C9_EntityInvariant ==
    \A i \in 1..Len(appuntamenti) :
        /\ appuntamenti[i].durata > 0
        /\ Strip(appuntamenti[i].titolo) # <<>>

----------------------------------------------------------------------------
(* C10 *)

\* C10: when the candidate overlaps stored appointments, one question is
\* asked and it names the first of them in collection order; no stored
\* appointment starts earlier and overlaps.
C10_FirstConflictReported ==
    [][ (AddRan /\ Conflicts(cand'[1])) =>
          LET c == cand'[1]
              k == FirstConflict(c)
          IN  /\ Len(msgbox') = 1
              /\ msgbox'[1].title = "Sovrapposizione"
              /\ msgbox'[1].titolo = appuntamenti[k].titolo
              /\ msgbox'[1].when = FmtDayTime(appuntamenti[k].data_ora)
              /\ \A j \in 1..Len(appuntamenti) :
                    Intersect(c, appuntamenti[j]) =>
                       /\ StartOf(appuntamenti[k]) <= StartOf(appuntamenti[j])
                       /\ k <= j ]_vars

\* A candidate that overlaps both stored appointments was declined after the
\* question named the first, which is not the one the second would name.
C10_Witness ==
    /\ pc = "running"
    /\ status = "Aggiunta annullata (sovrapposizione)."
    /\ cand # <<>>
    /\ Len(appuntamenti) = 2
    /\ Intersect(cand[1], appuntamenti[1])
    /\ Intersect(cand[1], appuntamenti[2])
    /\ Asked(msgbox)
    /\ msgbox[1].when = FmtDayTime(appuntamenti[1].data_ora)
    /\ msgbox[1].when # FmtDayTime(appuntamenti[2].data_ora)

====
